---- MODULE Spec2Model ----
(***************************************************************************)
(* Login job orchestrator of app.py: the sqlite store (accounts,           *)
(* login_jobs), the /api/login and /api/login-jobs handlers, and one       *)
(* daemon thread per job running login_with_playwright.                    *)
(*                                                                         *)
(* Text values are sequences of one-character strings, so that strip,      *)
(* lower, split and substring tests are computed as Python computes them.  *)
(* A nullable column holds {} for NULL and {v} for the value v.            *)
(***************************************************************************)
EXTENDS Integers, Sequences, FiniteSets, TLC

\* ------------------------------------------------------------------ bounds
\* Number of /api/login submissions that create a job.
MaxJobs == 2
\* Number of times the process is killed and started again.
MaxCrashes == 1

\* ------------------------------------------------------------- text values
NULL == {}
Val(v) == {v}
Get(opt) == CHOOSE v \in opt : TRUE

\* COALESCE(?, column) of the UPDATE statements
COALESCE(new, old) == IF new = NULL THEN old ELSE new

Digits == <<"0", "1", "2", "3", "4", "5", "6", "7", "8", "9">>

RECURSIVE Str(_)
\* str(n) of a non-negative integer: its decimal digits
Str(n) == IF n < 10 THEN <<Digits[n + 1]>>
          ELSE Str(n \div 10) \o <<Digits[(n % 10) + 1]>>

UpperCase == <<"A", "B", "C", "D", "E", "F", "G", "H", "I", "J", "K", "L", "M",
               "N", "O", "P", "Q", "R", "S", "T", "U", "V", "W", "X", "Y", "Z">>
LowerCase == <<"a", "b", "c", "d", "e", "f", "g", "h", "i", "j", "k", "l", "m",
               "n", "o", "p", "q", "r", "s", "t", "u", "v", "w", "x", "y", "z">>

\* str.lower()
Lower(s) == [i \in 1..Len(s) |->
               IF \E k \in 1..26 : UpperCase[k] = s[i]
               THEN LowerCase[CHOOSE k \in 1..26 : UpperCase[k] = s[i]]
               ELSE s[i]]

RECURSIVE LStrip(_)
LStrip(s) == IF s # <<>> /\ Head(s) = " " THEN LStrip(Tail(s)) ELSE s

RECURSIVE RStrip(_)
RStrip(s) == IF s # <<>> /\ s[Len(s)] = " " THEN RStrip(SubSeq(s, 1, Len(s) - 1)) ELSE s

\* str.strip()
Strip(s) == RStrip(LStrip(s))

\* sub in s
Contains(s, sub) ==
    \E i \in 0..(Len(s) - Len(sub)) : SubSeq(s, i + 1, i + Len(sub)) = sub

\* s.split("@")[0]
SplitHead(s) ==
    IF \E i \in 1..Len(s) : s[i] = "@"
    THEN SubSeq(s, 1, (CHOOSE i \in 1..Len(s) :
                          s[i] = "@" /\ \A k \in 1..(i - 1) : s[k] # "@") - 1)
    ELSE s

\* ------------------------------------------------------- module constants
PROFILE_DIR == <<"data", "/", "profiles">>

LOGIN_URL ==
  <<"h", "t", "t", "p", "s", ":", "/", "/", "w", "w", "w", ".", "k", "l", "e", "i",
    "n", "a", "n", "z", "e", "i", "g", "e", "n", ".", "d", "e", "/", "m", "-", "b",
    "e", "n", "u", "t", "z", "e", "r", "-", "a", "n", "m", "e", "l", "d", "u", "n",
    "g", "-", "i", "n", "a", "p", "p", ".", "h", "t", "m", "l", "?", "a", "p", "p",
    "T", "y", "p", "e", "=", "M", "W", "E", "B">>

\* the login-page marker of check_login_valid
LoginMarker == <<"a", "n", "m", "e", "l", "d", "u", "n", "g">>

\* the authentication-indicator substrings of check_login_valid
AuthTokens == {<<"s", "e", "s", "s", "i", "o", "n">>,
               <<"s", "i", "d">>,
               <<"a", "u", "t", "h">>,
               <<"t", "o", "k", "e", "n">>}

DefaultDevice == <<"i", "P", "h", "o", "n", "e", " ", "1", "3">>

\* ------------------------------------------------------------------ state
VARIABLES
    proc,        \* "down" or "up": whether the Flask process is running
    now,         \* the wall clock, in days
    accounts,    \* table accounts: accounts[i] is the row with id i
    login_jobs,  \* table login_jobs: login_jobs[i] is the row with id i
    dirs,        \* the profile directories that exist on disk
    threads,     \* job id -> the frame of its login_with_playwright thread
    creator,     \* account id -> the job whose thread inserted the row (0: none)
    resp,        \* the last HTTP response of /api/login and /api/login-jobs
    probe,       \* one call of check_login_valid: what the session shows, the result
    script       \* one call of resolve_conflicts: its arguments, locals, result

vars == <<proc, now, accounts, login_jobs, dirs, threads, creator, resp,
          probe, script>>

\* No call of check_login_valid under observation, no run of the script.
NoProbe == [pc |-> "none"]
NoScript == [pc |-> "none"]

\* strftime("%Y-%m-%d %H:%M") and isoformat(timespec="minutes") of a time
Strftime(t) == [fmt |-> "ymd hm", t |-> t]
Isoformat(t) == [fmt |-> "iso", t |-> t]

\* build_profile_path with a plain string for the f-string: the braces are
\* kept and no number is formatted
build_profile_path_literal(account_id) ==
    PROFILE_DIR \o <<"/", "account_", "{", "account_id", "}">>

\* build_profile_path: str(PROFILE_DIR / f"account_{account_id}")
build_profile_path(account_id) ==
    PROFILE_DIR \o <<"/", "account_">> \o Str(account_id)

\* ------------------------------------------------------ the stored database
\* Rows an earlier run of the program left in accounts: a row written before
\* the created_at and profile_path columns existed (both NULL).
OldAccount(id, age_days) ==
    [id |-> id, name |-> <<"o">>, email |-> <<"o", "@", "x">>, age_days |-> age_days,
     proxy |-> <<>>, ios_profile |-> DefaultDevice, profile_path |-> NULL,
     notes |-> <<>>, created_at |-> NULL, password |-> NULL]

StoredDatabases == {<<>>, <<OldAccount(1, 1)>>}

Init ==
    /\ proc = "down"
    /\ now = 0
    /\ accounts \in StoredDatabases
    /\ login_jobs = <<>>
    /\ dirs = {}
    /\ threads = <<>>
    /\ creator = [i \in DOMAIN accounts |-> 0]
    /\ resp = [code |-> 0, error |-> <<>>, job_id |-> NULL, body |-> NULL]
    /\ probe = NoProbe
    /\ script = NoScript

\* ------------------------------------------------------------------ init_db
\* The backfill of one accounts row: created_at and profile_path are set only
\* where the row's value is NULL or empty.
\* The backfill without its "if not row[...]" tests: both columns recomputed
\* on every start
BackfillUpdates_every_start(row) ==
    [created_at |-> Val(Isoformat(now - row.age_days)),
     profile_path |-> Val(build_profile_path(row.id))]

BackfillUpdates(row) ==
    [created_at |-> IF row.created_at = NULL
                    THEN Val(Isoformat(now - row.age_days)) ELSE NULL,
     profile_path |-> IF row.profile_path = NULL \/ row.profile_path = Val(<<>>)
                      THEN Val(build_profile_path(row.id)) ELSE NULL]

BackfillRow(row) ==
    LET updates == BackfillUpdates(row)
    IN  IF updates.created_at # NULL \/ updates.profile_path # NULL
        THEN [row EXCEPT
                !.created_at = COALESCE(updates.created_at, row.created_at),
                !.profile_path = COALESCE(updates.profile_path, row.profile_path)]
        ELSE row

\* init_db followed by a reconciliation sweep that closes the jobs a previous
\* process left unfinished
init_db_reconciles ==
    /\ proc = "down"
    /\ proc' = "up"
    /\ accounts' = [i \in DOMAIN accounts |-> BackfillRow(accounts[i])]
    /\ dirs' = dirs \cup {PROFILE_DIR}
    /\ login_jobs' = [j \in DOMAIN login_jobs |->
                        IF login_jobs[j].status \in {"valid", "invalid"}
                        THEN login_jobs[j]
                        ELSE [login_jobs[j] EXCEPT !.status = "invalid",
                                                   !.valid = Val(0)]]
    /\ UNCHANGED <<now, threads, creator, resp, probe, script>>

\* Module import: DATA_DIR and PROFILE_DIR are created, init_db() migrates and
\* backfills the accounts table, and the server starts with no worker thread.
init_db ==
    /\ proc = "down"
    /\ proc' = "up"
    /\ accounts' = [i \in DOMAIN accounts |-> BackfillRow(accounts[i])]
    /\ dirs' = dirs \cup {PROFILE_DIR}
    /\ UNCHANGED <<now, login_jobs, threads, creator, resp, probe, script>>

\* The process is killed: its daemon threads die with it, the database file
\* and the profile directories stay. Time passes before the next start.
crash ==
    /\ proc = "up"
    /\ now < MaxCrashes
    /\ proc' = "down"
    /\ now' = now + 1
    /\ threads' = [j \in {} |-> 0]
    /\ UNCHANGED <<accounts, login_jobs, dirs, creator, resp, probe, script>>

\* ------------------------------------------------------- login_jobs access
\* create_login_job without the UPDATE of profile_path
create_login_job_no_path(email, password, proxy) ==
    [id |-> Len(login_jobs) + 1, account_id |-> Val(0), status |-> "running",
     started_at |-> Strftime(now), finished_at |-> NULL,
     email |-> email, password |-> password, proxy |-> proxy,
     ios_profile |-> DefaultDevice, profile_path |-> <<>>,
     checked_at |-> NULL, valid |-> NULL]

\* create_login_job: the INSERT (account_id 0, status running, profile_path "")
\* and the UPDATE of profile_path, committed together
create_login_job(email, password, proxy) ==
    LET job_id == Len(login_jobs) + 1
        inserted == [id |-> job_id, account_id |-> Val(0), status |-> "running",
                     started_at |-> Strftime(now), finished_at |-> NULL,
                     email |-> email, password |-> password, proxy |-> proxy,
                     ios_profile |-> DefaultDevice, profile_path |-> <<>>,
                     checked_at |-> NULL, valid |-> NULL]
    IN  [inserted EXCEPT !.profile_path = build_profile_path(job_id)]

\* fetch_login_job whose SELECT has no WHERE clause: fetchone() yields the
\* first row of the table
fetch_login_job_first_row(job_id) ==
    IF login_jobs # <<>> THEN Val(login_jobs[1]) ELSE NULL

\* fetch_login_job: the row as a LoginJob, or None
fetch_login_job(job_id) ==
    IF job_id \in DOMAIN login_jobs THEN Val(login_jobs[job_id]) ELSE NULL

\* update_login_job with "column = ?" in place of "column = COALESCE(?, column)"
update_login_job_plain_set(job_id, status, finished_at, checked_at, valid, account_id) ==
    [i \in DOMAIN login_jobs |->
        IF i = job_id
        THEN [login_jobs[i] EXCEPT
                !.status = status,
                !.finished_at = finished_at,
                !.checked_at = checked_at,
                !.valid = valid,
                !.account_id = account_id]
        ELSE login_jobs[i]]

\* update_login_job: the table after the UPDATE ... WHERE id = job_id
update_login_job(job_id, status, finished_at, checked_at, valid, account_id) ==
    [i \in DOMAIN login_jobs |->
        IF i = job_id
        THEN [login_jobs[i] EXCEPT
                !.status = status,
                !.finished_at = COALESCE(finished_at, @),
                !.checked_at = COALESCE(checked_at, @),
                !.valid = COALESCE(valid, @),
                !.account_id = COALESCE(account_id, @)]
        ELSE login_jobs[i]]

\* row_to_account: the Account a read of the row yields
row_to_account(row) ==
    [row EXCEPT
        !.age_days = IF row.created_at # NULL
                     THEN (IF now - Get(row.created_at).t > 0
                           THEN now - Get(row.created_at).t ELSE 0)
                     ELSE row.age_days,
        !.profile_path = IF row.profile_path = NULL \/ row.profile_path = Val(<<>>)
                         THEN Val(build_profile_path(row.id)) ELSE row.profile_path]

\* fetch_accounts: SELECT * FROM accounts ORDER BY id, each through row_to_account
fetch_accounts == [i \in DOMAIN accounts |-> row_to_account(accounts[i])]

\* ------------------------------------------------------------ HTTP handlers
\* The JSON payloads of POST /api/login: two with credentials (one padded
\* with spaces, one without proxy) and three with a blank email or password.
Payloads ==
    {[email |-> <<"a", "@", "x">>, password |-> <<"p">>, proxy |-> <<>>],
     [email |-> <<" ", "b">>, password |-> <<"q", " ">>, proxy |-> <<"h", " ">>],
     [email |-> <<>>, password |-> <<"p">>, proxy |-> <<"h">>],
     [email |-> <<"a", "@", "x">>, password |-> <<>>, proxy |-> <<>>],
     [email |-> <<" ">>, password |-> <<" ", " ">>, proxy |-> <<>>]}

\* The frame of a thread: its position, and the locals job, is_valid (with the
\* name of the observation it was computed from) and account_id once they are
\* assigned.
NoThread == [pc |-> "start", job |-> NULL, seen |-> NULL, is_valid |-> NULL,
             account_id |-> NULL]

\* start_login_thread joining the thread it started: the handler goes on only
\* when no workflow is running
start_login_thread_joined(job_id) ==
    /\ \A j \in DOMAIN threads : threads[j].pc \in {"done", "died"}
    /\ threads' = (job_id :> NoThread) @@ threads

\* start_login_thread: a daemon thread that will run login_with_playwright
start_login_thread(job_id) == threads' = (job_id :> NoThread) @@ threads

\* POST /api/login testing the payload's values before they are stripped
login_account_raw_test(payload) ==
    LET email == Strip(payload.email)
        password == Strip(payload.password)
        proxy == Strip(payload.proxy)
    IN  /\ proc = "up"
        /\ IF payload.email = <<>> \/ payload.password = <<>>
           THEN /\ resp' = [code |-> 400, error |-> <<"E-Mail und Passwort sind erforderlich.">>,
                            job_id |-> NULL, body |-> NULL]
                /\ UNCHANGED <<proc, now, accounts, login_jobs, dirs, threads, creator, probe, script>>
           ELSE /\ Len(login_jobs) < MaxJobs
                /\ login_jobs' = Append(login_jobs, create_login_job(email, password, proxy))
                /\ start_login_thread(Len(login_jobs) + 1)
                /\ resp' = [code |-> 200, error |-> <<>>,
                            job_id |-> Val(Len(login_jobs) + 1), body |-> NULL]
                /\ UNCHANGED <<proc, now, accounts, dirs, creator, probe, script>>

\* POST /api/login
login_account(payload) ==
    LET email == Strip(payload.email)
        password == Strip(payload.password)
        proxy == Strip(payload.proxy)
    IN  /\ proc = "up"
        /\ IF email = <<>> \/ password = <<>>
           THEN /\ resp' = [code |-> 400, error |-> <<"E-Mail und Passwort sind erforderlich.">>,
                            job_id |-> NULL, body |-> NULL]
                /\ UNCHANGED <<proc, now, accounts, login_jobs, dirs, threads,
                               creator, probe, script>>
           ELSE /\ Len(login_jobs) < MaxJobs
                /\ login_jobs' = Append(login_jobs, create_login_job(email, password, proxy))
                /\ start_login_thread(Len(login_jobs) + 1)
                /\ resp' = [code |-> 200, error |-> <<>>,
                            job_id |-> Val(Len(login_jobs) + 1), body |-> NULL]
                /\ UNCHANGED <<proc, now, accounts, dirs, creator, probe, script>>

\* GET /api/login-jobs/<job_id>
get_login_job(job_id) ==
    LET job == fetch_login_job(job_id)
    IN  /\ proc = "up"
        /\ resp' = IF job = NULL
                   THEN [code |-> 404, error |-> <<"Kein Login-Job gefunden.">>,
                         job_id |-> NULL, body |-> NULL]
                   ELSE [code |-> 200, error |-> <<>>, job_id |-> NULL,
                         body |-> Val([status |-> Get(job).status,
                                       started_at |-> Get(job).started_at,
                                       finished_at |-> Get(job).finished_at,
                                       checked_at |-> Get(job).checked_at,
                                       valid |-> Get(job).valid,
                                       account_id |-> Get(job).account_id])]
        /\ UNCHANGED <<proc, now, accounts, login_jobs, dirs, threads, creator, probe, script>>

\* ------------------------------------------------------- check_login_valid
\* What the headless session can show after page.goto(LOGIN_URL): the final
\* URL and the names of the cookies in the profile's storage state.
HomeUrl == SubSeq(LOGIN_URL, 1, Len(LOGIN_URL) - 44)
LoginUrlNoQuery == SubSeq(LOGIN_URL, 1, Len(LOGIN_URL) - 13)

Observations ==
    [home |-> [url |-> HomeUrl, cookies |-> {}],
     login |-> [url |-> LOGIN_URL, cookies |-> {}],
     login_sid |-> [url |-> LOGIN_URL,
                    cookies |-> {<<"p", "r", "e", "f">>, <<"S", "I", "D">>}],
     login_again |-> [url |-> LoginUrlNoQuery, cookies |-> {<<"p", "r", "e", "f">>}]]

\* check_login_valid with "or" for the "and" of the URL rule
check_login_valid_url_or(current_url, cookies) ==
    LET url_rule == current_url # LOGIN_URL \/ ~Contains(current_url, LoginMarker)
        cookie_names == {Lower(name) : name \in cookies}
    IN  IF url_rule THEN TRUE
        ELSE \E name \in cookie_names : \E token \in AuthTokens : Contains(name, token)

\* the URL rule, then (only when it fails) the cookie rule
check_login_valid(current_url, cookies) ==
    LET url_rule == current_url # LOGIN_URL /\ ~Contains(current_url, LoginMarker)
        cookie_names == {Lower(name) : name \in cookies}
    IN  IF url_rule THEN TRUE
        ELSE \E name \in cookie_names : \E token \in AuthTokens : Contains(name, token)

\* --------------------------------------------------- login_with_playwright
Frame(j) == threads[j]
\* A thread that runs only while no other thread has its visible session
\* open: one lock held around the interactive session
Running_one_session(j, pc) ==
    /\ proc = "up" /\ j \in DOMAIN threads /\ threads[j].pc = pc
    /\ \A k \in DOMAIN threads \ {j} : threads[k].pc \notin {"mark_waiting", "wait"}

Running(j, pc) == proc = "up" /\ j \in DOMAIN threads /\ threads[j].pc = pc
Goto(j, frame) == threads' = [threads EXCEPT ![j] = frame]

\* the directory of the job's browser profile
ProfileOf(job) ==
    IF job.profile_path # <<>> THEN job.profile_path ELSE build_profile_path(job.id)

\* lines 322-327: the job is read again (a missing row ends the thread) and
\* its profile directory is created
wk_begin(j) ==
    /\ Running(j, "start")
    /\ LET job == fetch_login_job(j)
       IN  IF job = NULL
           THEN /\ Goto(j, [Frame(j) EXCEPT !.pc = "done"])
                /\ UNCHANGED dirs
           ELSE /\ Goto(j, [Frame(j) EXCEPT !.pc = "open", !.job = job])
                /\ dirs' = dirs \cup {ProfileOf(Get(job))}
    /\ UNCHANGED <<proc, now, accounts, login_jobs, creator, resp, probe, script>>

\* lines 330-341: the visible persistent context is launched and the login
\* page loaded; any of these calls can raise
wk_open(j) ==
    /\ Running(j, "open")
    /\ \E ok \in BOOLEAN :
          Goto(j, [Frame(j) EXCEPT !.pc = IF ok THEN "mark_waiting" ELSE "finally"])
    /\ UNCHANGED <<proc, now, accounts, login_jobs, dirs, creator, resp, probe, script>>

\* The thread going on to wait for the user without the write of line 344
wk_mark_waiting_skipped(j) ==
    /\ Running(j, "mark_waiting")
    /\ Goto(j, [Frame(j) EXCEPT !.pc = "wait"])
    /\ UNCHANGED <<proc, now, accounts, login_jobs, dirs, creator, resp, probe, script>>

\* line 344
wk_mark_waiting(j) ==
    /\ Running(j, "mark_waiting")
    /\ login_jobs' = update_login_job(Get(Frame(j).job).id, "waiting_for_user", NULL, NULL, NULL, NULL)
    /\ Goto(j, [Frame(j) EXCEPT !.pc = "wait"])
    /\ UNCHANGED <<proc, now, accounts, dirs, creator, resp, probe, script>>

\* line 347: the user closes the window, or the wait raises; both lead to
\* the finally block
wk_wait(j) ==
    /\ Running(j, "wait")
    /\ Goto(j, [Frame(j) EXCEPT !.pc = "finally"])
    /\ UNCHANGED <<proc, now, accounts, login_jobs, dirs, creator, resp, probe, script>>

\* the finally block without its first update_login_job
wk_checking_no_write(j) ==
    /\ Running(j, "finally")
    /\ Goto(j, [Frame(j) EXCEPT !.pc = "validate"])
    /\ UNCHANGED <<proc, now, accounts, login_jobs, dirs, creator, resp, probe, script>>

\* lines 349-353, the first statement of the finally block
wk_checking(j) ==
    /\ Running(j, "finally")
    /\ login_jobs' = update_login_job(Get(Frame(j).job).id, "checking", Val(Strftime(now)), NULL, NULL, NULL)
    /\ Goto(j, [Frame(j) EXCEPT !.pc = "validate"])
    /\ UNCHANGED <<proc, now, accounts, dirs, creator, resp, probe, script>>

\* line 354: check_login_valid returns
wk_validate(j) ==
    /\ Running(j, "validate")
    /\ \E obs \in DOMAIN Observations :
          LET is_valid == check_login_valid(Observations[obs].url, Observations[obs].cookies)
          IN  Goto(j, [Frame(j) EXCEPT !.pc = IF is_valid THEN "insert" ELSE "mark_invalid",
                                       !.is_valid = Val(is_valid),
                                       !.seen = Val(obs)])
    /\ dirs' = dirs \cup {Get(Frame(j).job).profile_path}
    /\ UNCHANGED <<proc, now, accounts, login_jobs, creator, resp, probe, script>>

\* line 354: check_login_valid raises (the headless launch or navigation
\* fails); the exception leaves the finally block and ends the thread
wk_validate_raises(j) ==
    /\ Running(j, "validate")
    /\ Goto(j, [Frame(j) EXCEPT !.pc = "died"])
    /\ dirs' = dirs \cup {Get(Frame(j).job).profile_path}
    /\ UNCHANGED <<proc, now, accounts, login_jobs, creator, resp, probe, script>>

\* lines 357-379: the INSERT INTO accounts of a valid login
\* The INSERT of lines 363-375 without the password column
NewAccount_without_password(job) ==
    [id |-> Len(accounts) + 1,
     name |-> IF Contains(job.email, <<"@">>) THEN SplitHead(job.email) ELSE job.email,
     email |-> job.email, age_days |-> 0, proxy |-> job.proxy,
     ios_profile |-> job.ios_profile, profile_path |-> Val(job.profile_path),
     notes |-> <<>>, created_at |-> Val(Isoformat(now)), password |-> NULL]

NewAccount(job) ==
    [id |-> Len(accounts) + 1,
     name |-> IF Contains(job.email, <<"@">>) THEN SplitHead(job.email) ELSE job.email,
     email |-> job.email, age_days |-> 0, proxy |-> job.proxy,
     ios_profile |-> job.ios_profile, profile_path |-> Val(job.profile_path),
     notes |-> <<>>, created_at |-> Val(Isoformat(now)), password |-> Val(job.password)]

wk_insert(j) ==
    /\ Running(j, "insert")
    /\ accounts' = Append(accounts, NewAccount(Get(Frame(j).job)))
    /\ creator' = Append(creator, j)
    /\ Goto(j, [Frame(j) EXCEPT !.pc = "mark_valid", !.account_id = Val(Len(accounts) + 1)])
    /\ UNCHANGED <<proc, now, login_jobs, dirs, resp, probe, script>>

\* The end of the finally block ends the thread, by return or by raising
\* again what the try block raised.

\* the valid write without the id of the inserted account
wk_mark_valid_unlinked(j) ==
    /\ Running(j, "mark_valid")
    /\ login_jobs' = update_login_job(Get(Frame(j).job).id, "valid", Val(Strftime(now)),
                                      Val(Strftime(now)), Val(1), NULL)
    /\ Goto(j, [Frame(j) EXCEPT !.pc = "done"])
    /\ UNCHANGED <<proc, now, accounts, dirs, creator, resp, probe, script>>

\* lines 380-387
wk_mark_valid(j) ==
    /\ Running(j, "mark_valid")
    /\ login_jobs' = update_login_job(Get(Frame(j).job).id, "valid", Val(Strftime(now)), Val(Strftime(now)),
                   Val(1), Frame(j).account_id)
    /\ Goto(j, [Frame(j) EXCEPT !.pc = "done"])
    /\ UNCHANGED <<proc, now, accounts, dirs, creator, resp, probe, script>>

\* The closing write of a failed validation without its checked_at and valid
wk_mark_invalid_status_only(j) ==
    /\ Running(j, "mark_invalid")
    /\ login_jobs' = update_login_job(Get(Frame(j).job).id, "invalid", NULL, NULL, NULL, NULL)
    /\ Goto(j, [Frame(j) EXCEPT !.pc = "done"])
    /\ UNCHANGED <<proc, now, accounts, dirs, creator, resp, probe, script>>

\* lines 389-395
wk_mark_invalid(j) ==
    /\ Running(j, "mark_invalid")
    /\ login_jobs' = update_login_job(Get(Frame(j).job).id, "invalid", Val(Strftime(now)), Val(Strftime(now)),
                   Val(0), NULL)
    /\ Goto(j, [Frame(j) EXCEPT !.pc = "done"])
    /\ UNCHANGED <<proc, now, accounts, dirs, creator, resp, probe, script>>

\* ------------------------------------------- one call of check_login_valid
\* The final URLs and the cookie names a call is observed with.
MarkerCapitalUrl == HomeUrl \o <<"m", "-", "A", "n", "m", "e", "l", "d", "u", "n", "g">>
ProbeUrls == {LOGIN_URL, LoginUrlNoQuery, HomeUrl, MarkerCapitalUrl}
ProbeCookies == {<<"p", "r", "e", "f">>,
                 <<"S", "I", "D">>,
                 <<"J", "S", "E", "S", "S", "I", "O", "N", "I", "D">>,
                 <<"x", "-", "A", "u", "t", "h">>,
                 <<"c", "s", "r", "f", "T", "o", "k", "e", "n">>,
                 <<"s", "i", "_", "d">>}

\* context.storage_state() called whatever the URL rule said
storage_state_read_always(current_url) == TRUE

\* lines 301-303: context.storage_state() is called only "if not is_logged_in"
storage_state_read(current_url) ==
    ~(current_url # LOGIN_URL /\ ~Contains(current_url, LoginMarker))

\* lines 299-314 for one final URL and one set of cookie names
probe_check_login_valid ==
    /\ probe.pc = "call"
    /\ probe' = [probe EXCEPT
                   !.pc = "returned",
                   !.result = Val(check_login_valid(probe.url, probe.cookies)),
                   !.storage_read = Val(storage_state_read(probe.url))]
    /\ UNCHANGED <<proc, now, accounts, login_jobs, dirs, threads, creator, resp, script>>

\* --------------------------------------- scripts/resolve_merge_conflicts.py
MaxSegments == 3

CONFLICT_START == <<"<", "<", "<", "<", "<", "<", "<">>
CONFLICT_MID == <<"=", "=", "=", "=", "=", "=", "=">>
CONFLICT_END == <<">", ">", ">", ">", ">", ">", ">">>

\* str.startswith
StartsWith(line, prefix) ==
    Len(line) >= Len(prefix) /\ SubSeq(line, 1, Len(prefix)) = prefix

\* str.splitlines(keepends=True): a line ends at "\n", "\r", "\r\n" and at
\* the other boundaries of str.splitlines (\v, \f, \x1c-\x1e, \x85, \u2028,
\* \u2029), which the form feed stands for here
RECURSIVE Splitlines(_)
Splitlines(content) ==
    LET ends == {i \in 1..Len(content) : content[i] \in {"\n", "\r", "\f"}}
    IN  IF content = <<>> THEN <<>>
        ELSE IF ends = {} THEN <<content>>
        ELSE LET first == CHOOSE i \in ends : \A k \in ends : i <= k
                 stop == IF /\ content[first] = "\r"
                            /\ first < Len(content)
                            /\ content[first + 1] = "\n"
                         THEN first + 1 ELSE first
             IN  <<SubSeq(content, 1, stop)>>
                    \o Splitlines(SubSeq(content, stop + 1, Len(content)))

\* "".join
RECURSIVE Join(_)
Join(parts) == IF parts = <<>> THEN <<>> ELSE Head(parts) \o Join(Tail(parts))

\* The texts the script is run on: a sequence of segments, each an ordinary
\* line or a conflict block (start marker line, the lines of ours, middle
\* marker line, the lines of theirs, end marker line). Marker lines come with
\* and without a label; the last line of the text may lack its line end.
\* Lines are what "\n" ends; one ordinary line has a form feed inside it.
LineA == <<"a", "\n">>
LineB == <<"b", "\r", "\n">>
LineIndented == <<" ">> \o CONFLICT_START \o <<"\n">>
LineFormFeed == <<"a", "\f">> \o CONFLICT_START \o <<"\n">>

OrdinaryLine(line) ==
    [kind |-> "line", head |-> line, ours |-> <<>>, mid |-> <<>>,
     theirs |-> <<>>, end |-> <<>>]
Block(start_label, ours, theirs, end_label) ==
    [kind |-> "block", head |-> CONFLICT_START \o start_label \o <<"\n">>,
     ours |-> ours, mid |-> CONFLICT_MID \o <<"\n">>,
     theirs |-> theirs, end |-> CONFLICT_END \o end_label \o <<"\n">>]

Segments ==
    {OrdinaryLine(LineA), OrdinaryLine(LineB), OrdinaryLine(LineIndented),
     OrdinaryLine(LineFormFeed),
     Block(<<" ", "H">>, <<LineA>>, <<LineB>>, <<" ", "t">>),
     Block(<<>>, <<>>, <<LineA, LineIndented>>, <<>>),
     Block(<<" ", "H">>, <<LineB, LineA>>, <<>>, <<>>)}

\* a line without its line end
Chop(line) ==
    IF line # <<>> /\ line[Len(line)] = "\n"
    THEN IF Len(line) >= 2 /\ line[Len(line) - 1] = "\r"
         THEN SubSeq(line, 1, Len(line) - 2)
         ELSE SubSeq(line, 1, Len(line) - 1)
    ELSE line

\* the segments of a text whose last line has no line end
ChopLast(segments) ==
    IF segments = <<>> THEN segments
    ELSE LET last == segments[Len(segments)]
         IN  [segments EXCEPT ![Len(segments)] =
                 IF last.kind = "line"
                 THEN [last EXCEPT !.head = Chop(last.head)]
                 ELSE [last EXCEPT !.end = Chop(last.end)]]

\* the text of a segment, and of a sequence of segments
Render(segment) ==
    IF segment.kind = "line" THEN segment.head
    ELSE segment.head \o Join(segment.ours) \o segment.mid
            \o Join(segment.theirs) \o segment.end
Content(segments) == Join([i \in DOMAIN segments |-> Render(segments[i])])

Keeps == {"ours", "theirs"}

\* lines 26-28, 30-32 and 33-34: the index after the loop
\* "while index < len(lines) and not lines[index].startswith(marker)"
RECURSIVE ScanUntil(_, _, _)
ScanUntil(lines, index, marker) ==
    IF index < Len(lines) /\ ~StartsWith(lines[index + 1], marker)
    THEN ScanUntil(lines, index + 1, marker)
    ELSE index

\* lines 29 and 35-36: "if index < len(lines) and
\* lines[index].startswith(marker): index += 1"
SkipMarker(lines, index, marker) ==
    IF index < Len(lines) /\ StartsWith(lines[index + 1], marker)
    THEN index + 1
    ELSE index

\* lines 13-16
resolve_conflicts_call ==
    /\ script.pc = "call"
    /\ script' = [script EXCEPT !.pc = "loop",
                                !.lines = Splitlines(script.content),
                                !.output = <<>>,
                                !.index = 0,
                                !.changed = FALSE]
    /\ UNCHANGED <<proc, now, accounts, login_jobs, dirs, threads, creator, resp, probe>>

\* lines 20-38: one pass of the outer loop over a line that starts a block
resolve_conflicts_block ==
    /\ script.pc = "loop"
    /\ script.index < Len(script.lines)
    /\ StartsWith(script.lines[script.index + 1], CONFLICT_START)
    /\ LET lines == script.lines
           first_ours == script.index + 1
           mid == ScanUntil(lines, first_ours, CONFLICT_MID)
           ours == SubSeq(lines, first_ours + 1, mid)
           first_theirs == SkipMarker(lines, mid, CONFLICT_MID)
           end == ScanUntil(lines, first_theirs, CONFLICT_END)
           theirs == SubSeq(lines, first_theirs + 1, end)
           after_end == SkipMarker(lines, ScanUntil(lines, end, CONFLICT_END),
                                   CONFLICT_END)
       IN  script' = [script EXCEPT
                        !.changed = TRUE,
                        !.index = after_end,
                        !.output = @ \o (IF script.keep = "ours" THEN ours ELSE theirs)]
    /\ UNCHANGED <<proc, now, accounts, login_jobs, dirs, threads, creator, resp, probe>>

\* lines 19-20 and 40-41: one pass of the outer loop over any other line
resolve_conflicts_line ==
    /\ script.pc = "loop"
    /\ script.index < Len(script.lines)
    /\ ~StartsWith(script.lines[script.index + 1], CONFLICT_START)
    /\ script' = [script EXCEPT
                    !.output = Append(@, script.lines[script.index + 1]),
                    !.index = @ + 1]
    /\ UNCHANGED <<proc, now, accounts, login_jobs, dirs, threads, creator, resp, probe>>

\* line 43
resolve_conflicts_return ==
    /\ script.pc = "loop"
    /\ ~(script.index < Len(script.lines))
    /\ script' = [script EXCEPT
                    !.pc = "returned",
                    !.result = Val([text |-> Join(script.output),
                                    changed |-> script.changed])]
    /\ UNCHANGED <<proc, now, accounts, login_jobs, dirs, threads, creator, resp, probe>>

\* ------------------------------------------------------------ specification
JobIds == 1..MaxJobs

\* the steps of the login_with_playwright threads
Workers ==
    \/ \E j \in JobIds : wk_begin(j)
    \/ \E j \in JobIds : wk_open(j)
    \/ \E j \in JobIds : wk_mark_waiting(j)
    \/ \E j \in JobIds : wk_wait(j)
    \/ \E j \in JobIds : wk_checking(j)
    \/ \E j \in JobIds : wk_validate(j)
    \/ \E j \in JobIds : wk_validate_raises(j)
    \/ \E j \in JobIds : wk_insert(j)
    \/ \E j \in JobIds : wk_mark_valid(j)
    \/ \E j \in JobIds : wk_mark_invalid(j)

\* The server after its start: submissions and the threads they start.
Next ==
    \/ init_db
    \/ \E payload \in Payloads : login_account(payload)
    \/ Workers

Spec == Init /\ [][Next]_vars

\* One payload with credentials and one with a blank password.
SamplePayloads ==
    {payload \in Payloads : payload.email = <<"a", "@", "x">>}

\* The same with clients polling /api/login-jobs/<id>.
NextApi ==
    \/ init_db
    \/ \E payload \in SamplePayloads : login_account(payload)
    \/ \E job_id \in 1..(MaxJobs + 1) : get_login_job(job_id)
    \/ Workers

SpecApi == Init /\ [][NextApi]_vars

\* The same with the process killed and started again.
NextRestart ==
    \/ init_db
    \/ crash
    \/ \E payload \in SamplePayloads : login_account(payload)
    \/ Workers

SpecRestart == Init /\ [][NextRestart]_vars

\* ================================================================== claims
\* One call of check_login_valid, for every final URL and set of cookie names
InitCheck ==
    /\ proc = "down" /\ now = 0
    /\ accounts = <<>> /\ login_jobs = <<>> /\ dirs = {}
    /\ threads = <<>> /\ creator = <<>>
    /\ resp = [code |-> 0, error |-> <<>>, job_id |-> NULL, body |-> NULL]
    /\ probe \in [pc : {"call"}, url : ProbeUrls, cookies : SUBSET ProbeCookies,
                  result : {NULL}, storage_read : {NULL}]
    /\ script = NoScript

NextCheck == probe_check_login_valid

SpecCheck == InitCheck /\ [][NextCheck]_vars

\* One call of resolve_conflicts, for every text of up to MaxSegments
\* segments, with and without a line end on its last line, and every keep
SegmentLists == UNION {[1..n -> Segments] : n \in 0..MaxSegments}

InitResolve ==
    /\ proc = "down" /\ now = 0
    /\ accounts = <<>> /\ login_jobs = <<>> /\ dirs = {}
    /\ threads = <<>> /\ creator = <<>>
    /\ resp = [code |-> 0, error |-> <<>>, job_id |-> NULL, body |-> NULL]
    /\ probe = NoProbe
    /\ \E listed \in SegmentLists, keep \in Keeps, ended \in BOOLEAN :
          LET segments == IF ended THEN listed ELSE ChopLast(listed)
          IN  script = [pc |-> "call", segments |-> segments,
                        content |-> Content(segments), keep |-> keep,
                        lines |-> <<>>, output |-> <<>>, index |-> 0,
                        changed |-> FALSE, result |-> NULL]

NextResolve ==
    \/ resolve_conflicts_call
    \/ resolve_conflicts_block
    \/ resolve_conflicts_line
    \/ resolve_conflicts_return

SpecResolve == InitResolve /\ [][NextResolve]_vars

Terminal == {"valid", "invalid"}

StatusRank(status) ==
    CASE status = "running" -> 0
      [] status = "waiting_for_user" -> 1
      [] status = "checking" -> 2
      [] status \in Terminal -> 3

\* A write of status new over status old that keeps the order running,
\* waiting_for_user, checking, terminal, with checking right before a terminal.
ForwardWrite(old, new) ==
    /\ StatusRank(new) > StatusRank(old)
    /\ new \in Terminal => old = "checking"

\* The positions at which a thread's next statement is update_login_job.
WritingPcs == {"mark_waiting", "finally", "mark_valid", "mark_invalid"}

\* C1: for every job the status values written to its row form a subsequence
\* of running, waiting_for_user, checking, valid|invalid: a new row starts in
\* running; every update_login_job of a thread, and every change of a stored
\* status, moves the status strictly forward; a terminal status is written only
\* over checking, and nothing is written over a terminal status.
C1_StatusSequence ==
    [][/\ \A j \in DOMAIN login_jobs' \ DOMAIN login_jobs :
              login_jobs'[j].status = "running"
       /\ \A j \in DOMAIN login_jobs :
              /\ j \in DOMAIN login_jobs'
              /\ login_jobs'[j].status # login_jobs[j].status
                    => ForwardWrite(login_jobs[j].status, login_jobs'[j].status)
              /\ ( /\ j \in DOMAIN threads
                   /\ threads[j].pc \in WritingPcs
                   /\ threads'[j].pc # threads[j].pc )
                    => ForwardWrite(login_jobs[j].status, login_jobs'[j].status)
              /\ login_jobs[j].status \in Terminal
                    => login_jobs'[j].status = login_jobs[j].status]_vars

\* C1 witness: one job has been polled and is terminal while another waits
\* for its user.
C1_Witness ==
    /\ resp.body # NULL
    /\ \E j, k \in DOMAIN login_jobs :
          /\ login_jobs[j].status \in Terminal
          /\ login_jobs[k].status = "waiting_for_user"

\* C2: a thread that has ended, whether by return or by an automation error
\* raised in the session or in the validation, has written a terminal status
\* to its job.
C2_EndedThreadIsTerminal ==
    \A j \in DOMAIN threads :
        threads[j].pc \in {"done", "died"} => login_jobs[j].status \in Terminal

\* C3: the account_id of a job is NULL unless its status is valid, in the row
\* and in every answer of the status endpoint.
C3_AccountIdNullUnlessValid ==
    /\ \A j \in DOMAIN login_jobs :
          login_jobs[j].status # "valid" => login_jobs[j].account_id = NULL
    /\ resp.body # NULL /\ Get(resp.body).status # "valid"
          => Get(resp.body).account_id = NULL

\* The final URL is not the login page: it differs from the login URL and
\* does not carry the marker.
NonLoginUrl(url) ==
    /\ url # LOGIN_URL
    /\ \A i \in 1..Len(url) :
          i + 8 <= Len(url) => SubSeq(url, i, i + 8) # <<"a", "n", "m", "e", "l", "d", "u", "n", "g">>

\* Some cookie name contains, in any letter case, an authentication indicator.
HasAuthCookie(cookies) ==
    \E name \in cookies : \E token \in AuthTokens :
        \E i \in 1..Len(name) :
            /\ i + Len(token) - 1 <= Len(name)
            /\ Lower(SubSeq(name, i, i + Len(token) - 1)) = token

\* What the validation of thread j saw.
SeenBy(j) == Observations[Get(threads[j].seen)]

\* C4: a job whose validation saw a non-login final URL is promoted: its
\* thread goes on to the INSERT and the valid write, and once it has ended the
\* job is valid with valid = 1 and an account_id naming an account row that
\* this thread inserted, with the job's email (the submitted one, stripped)
\* and age 0.
C4_NonLoginUrlPromotes ==
    \A j \in DOMAIN threads :
        (threads[j].seen # NULL /\ NonLoginUrl(SeenBy(j).url)) =>
            /\ threads[j].pc \in {"insert", "mark_valid", "done"}
            /\ threads[j].pc = "done" =>
                  /\ login_jobs[j].status = "valid"
                  /\ login_jobs[j].valid = Val(1)
                  /\ login_jobs[j].account_id # NULL
                  /\ LET a == Get(login_jobs[j].account_id)
                     IN  /\ a \in DOMAIN accounts
                         /\ creator[a] = j
                         /\ accounts[a].email = login_jobs[j].email
                         /\ accounts[a].age_days = 0
                         /\ row_to_account(accounts[a]).age_days = 0

\* C4 witness: a thread that saw the home page has ended with its job valid.
C4_Witness ==
    \E j \in DOMAIN threads :
        /\ threads[j].pc = "done"
        /\ threads[j].seen = Val("home")
        /\ login_jobs[j].status = "valid"

\* C5: a job whose validation saw a login-page URL and no authentication
\* cookie is not promoted: its thread goes on to the invalid write, once it
\* has ended the job is invalid with valid = 0, and no account row was
\* inserted by this job's thread.
C5_LoginPageRejects ==
    \A j \in DOMAIN threads :
        ( /\ threads[j].seen # NULL
          /\ ~NonLoginUrl(SeenBy(j).url)
          /\ ~HasAuthCookie(SeenBy(j).cookies) ) =>
            /\ threads[j].pc \in {"mark_invalid", "done"}
            /\ threads[j].pc = "done" =>
                  /\ login_jobs[j].status = "invalid"
                  /\ login_jobs[j].valid = Val(0)
            /\ \A a \in DOMAIN accounts : creator[a] # j

\* C5 witness: a thread that saw the login page with only a preference cookie
\* has ended with its job invalid, while another job's thread has inserted an
\* account.
C5_Witness ==
    \E j \in DOMAIN threads :
        /\ threads[j].pc = "done"
        /\ threads[j].seen = Val("login_again")
        /\ login_jobs[j].status = "invalid"
        /\ \E a \in DOMAIN accounts : creator[a] \notin {0, j}

\* A text that is empty or made of spaces only.
Blank(text) == \A i \in 1..Len(text) : text[i] = " "

\* C6: a submission whose email or password is blank is answered with the
\* client error 400 and changes neither table, starts no thread and creates
\* no directory, whatever its proxy.
C6_BlankSubmitRejected ==
    [][\A payload \in Payloads :
          ((Blank(payload.email) \/ Blank(payload.password)) /\ login_account(payload))
             => /\ resp'.code = 400
                /\ resp'.job_id = NULL
                /\ UNCHANGED <<login_jobs, accounts, threads, dirs, creator>>]_vars

\* C6 witness: a blank submission has been rejected after a job was created.
C6_Witness ==
    /\ resp.code = 400
    /\ Len(login_jobs) = 1
    /\ DOMAIN threads = {1}

\* C7: while the server is up a submission with credentials can complete in
\* every state, whatever the threads are doing (below the bound on jobs); it
\* adds a row in status running, answers with the new job id, and leaves the
\* new thread before its first statement and every other thread where it was.
C7_SubmitNeverWaits ==
    /\ [](\A payload \in Payloads :
            (proc = "up" /\ Len(login_jobs) < MaxJobs
                /\ ~Blank(payload.email) /\ ~Blank(payload.password))
               => ENABLED login_account(payload))
    /\ [][\A payload \in Payloads :
            (~Blank(payload.email) /\ ~Blank(payload.password) /\ login_account(payload))
               => LET job_id == Len(login_jobs) + 1
                  IN  /\ DOMAIN login_jobs' = DOMAIN login_jobs \cup {job_id}
                      /\ login_jobs'[job_id].status = "running"
                      /\ resp'.code = 200
                      /\ resp'.job_id = Val(job_id)
                      /\ DOMAIN threads' = DOMAIN threads \cup {job_id}
                      /\ threads'[job_id].pc = "start"
                      /\ \A k \in DOMAIN threads : threads'[k] = threads[k]]_vars

\* C7 witness: job 2 was submitted and answered while the session of job 1
\* is open and not closed.
C7_Witness ==
    /\ resp.job_id = Val(2)
    /\ DOMAIN threads = {1, 2}
    /\ threads[1].pc = "wait"
    /\ threads[2].pc = "start"
    /\ login_jobs[2].status = "running"

\* <profileRoot>/account_N, written out for N below 10
ExpectedProfilePath(n) == <<"data", "/", "profiles", "/", "account_", Digits[n + 1]>>

\* C8: the stored profile path of job N is <profileRoot>/account_N in every
\* state; the directory exists from before the interactive session is
\* launched, through the session and after it; no step removes a directory.
C8_ProfileDirectory ==
    /\ [](\A j \in DOMAIN login_jobs :
            /\ login_jobs[j].profile_path = ExpectedProfilePath(j)
            /\ (j \in DOMAIN threads /\ threads[j].pc # "start")
                  => ExpectedProfilePath(j) \in dirs)
    /\ [][dirs \subseteq dirs']_vars

\* C8 witness: the interactive session of job 2 is open on its directory.
C8_Witness ==
    /\ 2 \in DOMAIN threads
    /\ threads[2].pc = "wait"
    /\ login_jobs[2].profile_path = <<"data", "/", "profiles", "/", "account_", "2">>
    /\ login_jobs[2].profile_path \in dirs

NonTerminalJobsOn(path) ==
    {j \in DOMAIN login_jobs :
        login_jobs[j].profile_path = path /\ login_jobs[j].status \notin Terminal}

\* C9: two distinct jobs have distinct ids and distinct profile directories,
\* and no profile directory has more than one job that is not terminal.
C9_JobsDoNotCollide ==
    /\ \A i, j \in DOMAIN login_jobs :
          i # j => /\ login_jobs[i].id # login_jobs[j].id
                   /\ login_jobs[i].profile_path # login_jobs[j].profile_path
    /\ \A j \in DOMAIN login_jobs :
          Cardinality(NonTerminalJobsOn(login_jobs[j].profile_path)) <= 1

\* C9 witness: two jobs are in flight at once, each with its own session open.
C9_Witness ==
    /\ Len(login_jobs) = 2
    /\ DOMAIN threads = {1, 2}
    /\ threads[1].pc = "wait"
    /\ threads[2].pc = "wait"

\* C10: no two account rows have the same profile path, a row without a
\* stored path counting with the path a read gives it.
C10_AccountPathsUnique ==
    \A a, b \in DOMAIN accounts :
        a # b => row_to_account(accounts[a]).profile_path
                    # row_to_account(accounts[b]).profile_path

\* The next statement of thread j, whichever it is.
StepOf(j) ==
    \/ wk_begin(j) \/ wk_open(j) \/ wk_mark_waiting(j) \/ wk_wait(j)
    \/ wk_checking(j) \/ wk_validate(j) \/ wk_insert(j)
    \/ wk_mark_valid(j) \/ wk_mark_invalid(j)

\* C11: threads do not wait for each other. In every state with the server
\* up, every thread that has not ended can take its next step, every job can
\* be polled, and (below the bound on jobs) a job can be submitted, whatever
\* the other threads are doing; so a job is created, polled and driven to a
\* terminal status while another one waits for its user.
C11_ThreadsIndependent ==
    proc = "up" =>
        /\ \A j \in DOMAIN threads :
              threads[j].pc \notin {"done", "died"} => ENABLED StepOf(j)
        /\ \A job_id \in DOMAIN login_jobs : ENABLED get_login_job(job_id)
        /\ Len(login_jobs) < MaxJobs =>
              \E payload \in SamplePayloads : ENABLED login_account(payload)

\* C11 witness: job 2, submitted after job 1, has been polled as terminal
\* while job 1 is still waiting for its user with its session open.
C11_Witness ==
    /\ DOMAIN threads = {1, 2}
    /\ threads[1].pc = "wait"
    /\ login_jobs[1].status = "waiting_for_user"
    /\ login_jobs[2].status \in Terminal
    /\ resp.body # NULL
    /\ Get(resp.body).status = login_jobs[2].status

\* The other order: job 1 is terminal while job 2 waits for its user.
C11_OtherOrder ==
    /\ DOMAIN threads = {1, 2}
    /\ threads[2].pc = "wait"
    /\ login_jobs[2].status = "waiting_for_user"
    /\ login_jobs[1].status \in Terminal

\* A job whose thread died with the process that created it.
Orphaned(j) == j \in DOMAIN login_jobs /\ j \notin DOMAIN threads

\* C12: a restart leaves every job row as it was, and from then on the row of
\* a job whose process was killed in a non-terminal status never changes and
\* no thread is started for it, through the startup migration and whatever
\* the new process does for other jobs.
C12_OrphanedJobFrozen ==
    [][/\ proc' = "down" => login_jobs' = login_jobs
       /\ \A j \in DOMAIN login_jobs :
             (Orphaned(j) /\ login_jobs[j].status \notin Terminal) =>
                 /\ j \in DOMAIN login_jobs'
                 /\ login_jobs'[j] = login_jobs[j]
                 /\ j \notin DOMAIN threads']_vars

\* C12 witness: after a restart job 1 is still waiting_for_user with no
\* thread, while job 2, submitted to the new process, has reached a terminal
\* status.
C12_Witness ==
    /\ proc = "up" /\ now >= 1
    /\ Len(login_jobs) = 2
    /\ Orphaned(1) /\ login_jobs[1].status = "waiting_for_user"
    /\ 2 \in DOMAIN threads /\ login_jobs[2].status \in Terminal

\* The columns the backfill derives are present in an accounts row.
Populated(row) ==
    /\ row.created_at # NULL
    /\ row.profile_path \notin {NULL, Val(<<>>)}

\* C13: the startup migration is idempotent. A run never changes a created_at
\* or a profile_path that is already populated, it leaves every row
\* populated, and a run that follows an earlier run (at a later time) leaves
\* the accounts table exactly as it found it.
C13_BackfillIdempotent ==
    [][(proc = "down" /\ proc' = "up") =>
          /\ DOMAIN accounts' = DOMAIN accounts
          /\ \A i \in DOMAIN accounts :
                /\ accounts[i].created_at # NULL =>
                      accounts'[i].created_at = accounts[i].created_at
                /\ accounts[i].profile_path \notin {NULL, Val(<<>>)} =>
                      accounts'[i].profile_path = accounts[i].profile_path
                /\ Populated(accounts'[i])
                /\ BackfillRow(accounts'[i]) = accounts'[i]
          /\ now >= 1 => accounts' = accounts]_vars

\* C13 witness: the migration has run a second time, later than the first,
\* and the legacy row still carries the created_at and the profile_path the
\* first run derived for it.
C13_Witness ==
    /\ proc = "up" /\ now >= 1
    /\ Len(accounts) >= 1
    /\ accounts[1].name = <<"o">>
    /\ accounts[1].created_at = Val(Isoformat(0 - 1))
    /\ accounts[1].profile_path = Val(build_profile_path(1))

\* The columns update_login_job never names.
KeptColumns == {"id", "started_at", "email", "password", "proxy",
                "ios_profile", "profile_path"}

\* A nullable argument of update_login_job: absent, or the given value.
Partial(v) == {NULL, Val(v)}

\* C14: update_login_job changes only the row with the given id and only the
\* columns it is given. On every table the program reaches and for every
\* choice of absent and present arguments: the other rows are equal, the
\* columns it never names are equal, status is the given one, and each of
\* finished_at, checked_at, valid, account_id is the given value when one is
\* given and the existing value otherwise; an id with no row changes nothing.
C14_UpdateFrame ==
    \A job_id \in 1..(Len(login_jobs) + 1) :
    \A finished_at \in Partial(Strftime(now)), checked_at \in Partial(Strftime(now)),
       valid \in Partial(1), account_id \in Partial(Len(accounts) + 1) :
        LET after == update_login_job(job_id, "checking", finished_at,
                                      checked_at, valid, account_id)
        IN  /\ DOMAIN after = DOMAIN login_jobs
            /\ \A i \in DOMAIN login_jobs \ {job_id} : after[i] = login_jobs[i]
            /\ job_id \in DOMAIN login_jobs =>
                  LET old == login_jobs[job_id]
                      new == after[job_id]
                  IN  /\ \A c \in KeptColumns : new[c] = old[c]
                      /\ new.status = "checking"
                      /\ new.finished_at =
                            IF finished_at = NULL THEN old.finished_at ELSE finished_at
                      /\ new.checked_at =
                            IF checked_at = NULL THEN old.checked_at ELSE checked_at
                      /\ new.valid = IF valid = NULL THEN old.valid ELSE valid
                      /\ new.account_id =
                            IF account_id = NULL THEN old.account_id ELSE account_id
                      /\ \A c \in {"finished_at", "checked_at", "valid", "account_id"} :
                            old[c] # NULL => new[c] # NULL

\* C14 witness: job 1 was closed as invalid by an update that gave neither
\* finished_at nor account_id, and still carries the finished_at of the
\* earlier update and the account_id of its insert, while the row of job 2
\* is as its insert left it.
C14_Witness ==
    /\ Len(login_jobs) = 2
    /\ login_jobs[1].status = "invalid"
    /\ login_jobs[1].valid = Val(0)
    /\ login_jobs[1].finished_at # NULL
    /\ login_jobs[1].account_id = Val(0)
    /\ login_jobs[2].status = "running"
    /\ login_jobs[2].finished_at = NULL

\* The fields GET /api/login-jobs/<id> reports.
ReportedFields == {"status", "started_at", "finished_at", "checked_at",
                   "valid", "account_id"}

\* C15: a poll of job_id answers 404 exactly when no row with that id exists
\* (rows are never deleted, so: when no such job was ever created), otherwise
\* 200 with the stored status, started_at, finished_at, checked_at, valid and
\* account_id of that very row; either way the tables and the profile
\* directories are as before. No step removes a job row.
C15_PollReportsStoredRow ==
    [][/\ DOMAIN login_jobs \subseteq DOMAIN login_jobs'
       /\ \A job_id \in 1..(MaxJobs + 1) :
             get_login_job(job_id) =>
                /\ resp'.code = 404 <=> job_id \notin DOMAIN login_jobs
                /\ resp'.code = 404 => resp'.body = NULL
                /\ job_id \in DOMAIN login_jobs =>
                      /\ resp'.code = 200
                      /\ resp'.body # NULL
                      /\ DOMAIN Get(resp'.body) = ReportedFields
                      /\ \A c \in ReportedFields :
                            Get(resp'.body)[c] = login_jobs[job_id][c]
                /\ login_jobs' = login_jobs
                /\ accounts' = accounts
                /\ dirs' = dirs]_vars

\* C15 witness: job 2 was polled after it became valid, while job 1 is not
\* valid: the answer carries the status and the account of job 2.
C15_Witness ==
    /\ Len(login_jobs) = 2
    /\ login_jobs[2].status = "valid"
    /\ login_jobs[1].status # "valid"
    /\ resp.code = 200
    /\ resp.body # NULL
    /\ \A c \in ReportedFields : Get(resp.body)[c] = login_jobs[2][c]

\* A poll of an id that was never created has answered 404 although the
\* table holds jobs.
C15_NotFoundSeen == resp.code = 404 /\ login_jobs # <<>>

\* C16: within a job each status write precedes the work it names. A thread
\* blocked in wait_for_event("close") has the stored status waiting_for_user;
\* a thread in the headless validation, or between it and the final write,
\* has the stored status checking; and a job whose stored status is valid
\* names an accounts row that is already committed and was inserted by that
\* job's thread.
C16_WriteBeforeWork ==
    /\ \A j \in DOMAIN threads :
          /\ threads[j].pc = "wait" => login_jobs[j].status = "waiting_for_user"
          /\ threads[j].pc \in {"validate", "insert", "mark_valid", "mark_invalid"} =>
                login_jobs[j].status = "checking"
    /\ \A j \in DOMAIN login_jobs :
          login_jobs[j].status = "valid" =>
             /\ login_jobs[j].account_id # NULL
             /\ Get(login_jobs[j].account_id) \in DOMAIN accounts
             /\ creator[Get(login_jobs[j].account_id)] = j

\* C16 witness: one thread is blocked waiting for its user under the status
\* waiting_for_user, another is in the headless validation under checking.
C16_Witness ==
    \E j, k \in DOMAIN threads :
        /\ threads[j].pc = "wait" /\ login_jobs[j].status = "waiting_for_user"
        /\ threads[k].pc = "validate" /\ login_jobs[k].status = "checking"

\* A job is stored as valid with its committed account.
C16_ValidSeen ==
    \E j \in DOMAIN login_jobs :
        /\ login_jobs[j].status = "valid"
        /\ creator[Get(login_jobs[j].account_id)] = j

\* The fields of one job row agree with its status.
FieldsAgree(job) ==
    /\ job.status \in {"running", "waiting_for_user", "checking"} => job.valid = NULL
    /\ job.valid = Val(1) <=> job.status = "valid"
    /\ job.valid = Val(0) <=> job.status = "invalid"
    /\ job.checked_at # NULL <=> job.status \in Terminal
    /\ job.finished_at # NULL <=> job.status \in {"checking", "valid", "invalid"}

\* C18: in every reachable state, restarts included, each job row's valid,
\* checked_at and finished_at agree with its status, and no step changes the
\* started_at of an existing job.
C18_FieldsAgreeWithStatus ==
    /\ [](\A j \in DOMAIN login_jobs : FieldsAgree(login_jobs[j]))
    /\ [][\A j \in DOMAIN login_jobs :
             /\ j \in DOMAIN login_jobs'
             /\ login_jobs'[j].started_at = login_jobs[j].started_at]_vars

\* C18 witness: after a restart the table holds a job of the first process
\* closed as valid, started at time 0, and a job of the second process in
\* checking, started at time 1, finished and not yet checked.
C18_Witness ==
    /\ now = 1 /\ Len(login_jobs) = 2
    /\ login_jobs[1].status = "valid" /\ login_jobs[1].valid = Val(1)
    /\ login_jobs[1].started_at = Strftime(0)
    /\ login_jobs[2].status = "checking"
    /\ login_jobs[2].started_at = Strftime(1)
    /\ login_jobs[2].finished_at # NULL /\ login_jobs[2].checked_at = NULL

\* The accounts rows inserted by the thread of job j.
AccountsOf(j) == {a \in DOMAIN accounts : creator[a] = j}

\* C19: the thread of a job inserts at most one accounts row, and only after
\* its check_login_valid returned true; every job stored as valid names an
\* existing accounts row that carries the job's email, password, proxy,
\* device profile and profile path; two valid jobs never name the same row.
C19_OneAccountPerValidJob ==
    /\ \A j \in DOMAIN login_jobs :
          /\ Cardinality(AccountsOf(j)) <= 1
          /\ AccountsOf(j) # {} =>
                j \in DOMAIN threads /\ threads[j].is_valid = Val(TRUE)
          /\ login_jobs[j].status = "valid" =>
                /\ login_jobs[j].account_id # NULL
                /\ AccountsOf(j) = {Get(login_jobs[j].account_id)}
                /\ LET account == accounts[Get(login_jobs[j].account_id)]
                   IN  /\ account.id = Get(login_jobs[j].account_id)
                       /\ account.email = login_jobs[j].email
                       /\ account.password = Val(login_jobs[j].password)
                       /\ account.proxy = login_jobs[j].proxy
                       /\ account.ios_profile = login_jobs[j].ios_profile
                       /\ account.profile_path = Val(login_jobs[j].profile_path)
    /\ \A j, k \in DOMAIN login_jobs :
          (j # k /\ login_jobs[j].status = "valid" /\ login_jobs[k].status = "valid") =>
              login_jobs[j].account_id # login_jobs[k].account_id

\* C19 witness: next to a legacy account two jobs are valid, each with an
\* account of its own, whose ids differ from the job ids.
C19_Witness ==
    /\ Len(accounts) = 3 /\ Len(login_jobs) = 2
    /\ login_jobs[1].status = "valid" /\ login_jobs[2].status = "valid"
    /\ {Get(login_jobs[1].account_id), Get(login_jobs[2].account_id)} = {2, 3}
    /\ creator[1] = 0

\* C17: for every final URL and every set of cookie names check_login_valid
\* returns true exactly when the URL is not the login URL and does not
\* contain the marker, or some cookie name contains, in any letter case, one
\* of session, sid, auth, token; the storage state with the cookies is read
\* exactly when the URL rule did not already make the result true.
C17_ValidityRule ==
    probe.pc = "returned" =>
        /\ Get(probe.result) <=>
              (NonLoginUrl(probe.url) \/ HasAuthCookie(probe.cookies))
        /\ Get(probe.storage_read) <=> ~NonLoginUrl(probe.url)
        /\ NonLoginUrl(probe.url) => Get(probe.result)

\* C17 witness: the session ended on the login URL itself and the call
\* returned true because of the cookie SID, read from the storage state.
C17_Witness ==
    /\ probe.pc = "returned"
    /\ probe.url = LOGIN_URL
    /\ probe.cookies = {<<"p", "r", "e", "f">>, <<"S", "I", "D">>}
    /\ probe.result = Val(TRUE)
    /\ probe.storage_read = Val(TRUE)

\* A call on a URL with the marker in another letter case returned true
\* without reading the cookies, and one on the login page without an
\* indicator cookie returned false.
C17_UrlRuleSeen ==
    /\ probe.pc = "returned" /\ probe.url = MarkerCapitalUrl
    /\ probe.result = Val(TRUE) /\ probe.storage_read = Val(FALSE)
C17_RejectSeen ==
    /\ probe.pc = "returned" /\ probe.url = LoginUrlNoQuery
    /\ probe.cookies = {<<"p", "r", "e", "f">>, <<"s", "i", "_", "d">>}
    /\ probe.result = Val(FALSE)

\* The text with each block replaced by the lines of the side kept.
Expected(segments, keep) ==
    Join([i \in DOMAIN segments |->
            IF segments[i].kind = "line" THEN segments[i].head
            ELSE Join(IF keep = "ours" THEN segments[i].ours
                      ELSE segments[i].theirs)])

\* Some line of the text starts with the marker: the marker stands at the
\* start of the text or right after a "\n".
HasLineStarting(text, marker) ==
    \E i \in 1..Len(text) :
        /\ i = 1 \/ text[i - 1] = "\n"
        /\ i + Len(marker) - 1 <= Len(text)
        /\ SubSeq(text, i, i + Len(marker) - 1) = marker

\* What resolve_conflicts is to return for the text of script.segments.
Resolved ==
    LET result == Get(script.result)
        conflict == HasLineStarting(script.content, CONFLICT_START)
    IN  /\ result.text = Expected(script.segments, script.keep)
        /\ \A marker \in {CONFLICT_START, CONFLICT_MID, CONFLICT_END} :
              ~HasLineStarting(result.text, marker)
        /\ result.changed <=> conflict
        /\ conflict <=> \E i \in DOMAIN script.segments :
                           script.segments[i].kind = "block"
        /\ ~conflict => result.text = script.content

\* C20: on a text of ordinary lines and well-formed, non-nested conflict
\* blocks resolve_conflicts returns the ordinary lines in their order with
\* each block replaced by exactly its ours lines when keep is "ours" and
\* exactly its theirs lines otherwise, no line of the result starts with a
\* marker, the changed flag is true exactly when some line of the text
\* starts with <<<<<<<, and a text without such a line is returned as it is.
C20_ResolveConflicts == script.pc = "returned" => Resolved

\* A text in which "\n", alone or after "\r", is the only line boundary
\* str.splitlines knows of.
NewlinesOnly(text) ==
    \A i \in 1..Len(text) :
        /\ text[i] # "\f"
        /\ text[i] = "\r" => (i < Len(text) /\ text[i + 1] = "\n")

\* On the texts whose lines only "\n" ends the call returns what it is to.
ResolvedOnNewlinesOnly ==
    (script.pc = "returned" /\ NewlinesOnly(script.content)) => Resolved

\* A text of an ordinary line, a block and a block whose end marker is the
\* last line without a line end has been resolved to theirs, the flag set.
ResolvedToTheirsSeen ==
    /\ script.pc = "returned"
    /\ NewlinesOnly(script.content)
    /\ script.keep = "theirs"
    /\ Len(script.segments) = 3
    /\ script.segments[1].kind = "line"
    /\ script.segments[2].kind = "block" /\ script.segments[2].theirs # <<>>
    /\ script.segments[3].kind = "block"
    /\ script.segments[3].end = CONFLICT_END
    /\ Get(script.result).changed
    /\ Get(script.result).text # script.content

\* A text without a block came back as it was, with the flag unset.
ReturnedUnchangedSeen ==
    /\ script.pc = "returned"
    /\ Len(script.segments) = 2
    /\ ~Get(script.result).changed
    /\ Get(script.result).text = script.content

====
